---- MODULE Spec2Model ----
(***************************************************************************)
(* A model of the attribute based access control core of auth-engine:      *)
(* the zod schemas (schema.ts), PolicyManager (policy-manager.ts) and      *)
(* AuthEngine (engine.ts).                                                 *)
(*                                                                         *)
(* JavaScript values are records of one shape, so that values of different *)
(* JavaScript types can be compared: type is the result of typeof, except  *)
(* that an array has type "array" (Array.isArray) and a missing property   *)
(* has type "undefined".                                                   *)
(*                                                                         *)
(* The result of a call is a record: raised = "none" and the returned      *)
(* boolean in value, or raised = the name of the error thrown.             *)
(*                                                                         *)
(* The variables: resourcesTypes and policies are the fields of the        *)
(* PolicyManager, engine is the AuthEngine built on the index, query holds *)
(* the arguments of the last isAuthorized call, argument what the last     *)
(* PolicyManager call was handed, and outcome the result of the last call. *)
(***************************************************************************)
EXTENDS Integers, Sequences, FiniteSets, TLC

VARIABLES resourcesTypes, policies, engine, query, argument, outcome

vars == <<resourcesTypes, policies, engine, query, argument, outcome>>

(***************************************************************************)
(* Bounds of the model.                                                    *)
(***************************************************************************)
\* the largest number of policies the index holds
MaxPolicies == 2
\* the number of nested evaluate() calls the JavaScript call stack holds
MaxStack == 6

(***************************************************************************)
(* JavaScript values.                                                      *)
(***************************************************************************)
Str(s) == [type |-> "string", str |-> s, num |-> 0, bool |-> FALSE, items |-> <<>>]
Num(n) == [type |-> "number", str |-> "", num |-> n, bool |-> FALSE, items |-> <<>>]
Bool(b) == [type |-> "boolean", str |-> "", num |-> 0, bool |-> b, items |-> <<>>]
Arr(s) == [type |-> "array", str |-> "", num |-> 0, bool |-> FALSE, items |-> s]
Undefined == [type |-> "undefined", str |-> "", num |-> 0, bool |-> FALSE, items |-> <<>>]

typeof(v) == IF v.type = "array" THEN "object" ELSE v.type
isArray(v) == v.type = "array"

\* attributes[key]: the own property, or undefined
Prop(attributes, key) == IF key \in DOMAIN attributes THEN attributes[key] ELSE Undefined

Return(b) == [raised |-> "none", value |-> b]
Throw(e) == [raised |-> e, value |-> FALSE]
Returned(res) == res.raised = "none"

(***************************************************************************)
(* schema.ts                                                               *)
(***************************************************************************)
actions == {"read", "create", "update", "delete"}
comparators == {"eq", "ne", "gt", "gte", "lt", "lte", "in", "nin"}
equalityOperators == {"eq", "ne"}
numericOperators == {"gt", "gte", "lt", "lte"}
collectionOperators == {"in", "nin"}
logicalOperators == {"and", "or", "not"}
compareSource == {"subject", "resource"}

AllOfType(seq, t) == \A i \in 1..Len(seq) : seq[i].type = t

\* the union with z.boolean().array() as a sixth member
primitiveWithBooleanArray(v) ==
    \/ v.type \in {"string", "number", "boolean"}
    \/ v.type = "array"
          /\ (AllOfType(v.items, "string") \/ AllOfType(v.items, "number") \/ AllOfType(v.items, "boolean"))

\* z.union([string, number, boolean, string[], number[]])
primitive(v) ==
    \/ v.type \in {"string", "number", "boolean"}
    \/ v.type = "array" /\ (AllOfType(v.items, "string") \/ AllOfType(v.items, "number"))

attributeSchema(attributes) == \A k \in DOMAIN attributes : primitive(attributes[k])

\* z.string().min(2).regex(/^\$.+/)
dynamicKey(k) == Len(k) >= 2 /\ SubSeq(k, 1, 1) = "$"

\* .strict() objects with an optional compareSource
AttributeFields(c) ==
    \/ DOMAIN c = {"attributeKey", "referenceValue", "operator"}
    \/ DOMAIN c = {"attributeKey", "referenceValue", "operator", "compareSource"}
          /\ c.compareSource \in compareSource

equalityConditionSchema(c) ==
    /\ AttributeFields(c)
    /\ dynamicKey(c.attributeKey)
    /\ c.referenceValue.type \in {"string", "number", "boolean"}
    /\ c.operator \in equalityOperators

numericConditionSchema(c) ==
    /\ AttributeFields(c)
    /\ dynamicKey(c.attributeKey)
    /\ c.referenceValue.type = "number"
    /\ c.operator \in numericOperators

collectionConditionSchema(c) ==
    /\ AttributeFields(c)
    /\ dynamicKey(c.attributeKey)
    /\ c.referenceValue.type = "array"
    /\ (AllOfType(c.referenceValue.items, "string") \/ AllOfType(c.referenceValue.items, "number"))
    /\ c.operator \in collectionOperators

entityKeyPrimitiveConditionSchema(c) ==
    /\ DOMAIN c = {"subjectKey", "resourceKey", "operator"}
    /\ dynamicKey(c.subjectKey)
    /\ dynamicKey(c.resourceKey)
    /\ c.operator \in equalityOperators \cup numericOperators

entityKeyCollectionConditionSchema(c) ==
    /\ DOMAIN c = {"targetKey", "collectionKey", "operator", "collectionSource"}
    /\ dynamicKey(c.targetKey)
    /\ dynamicKey(c.collectionKey)
    /\ c.operator \in collectionOperators
    /\ c.collectionSource \in compareSource

entityKeyConditionSchema(c) ==
    entityKeyPrimitiveConditionSchema(c) \/ entityKeyCollectionConditionSchema(c)

attributeConditionSchema(c) ==
    equalityConditionSchema(c) \/ numericConditionSchema(c) \/ collectionConditionSchema(c)

baseConditionSchema(c) == attributeConditionSchema(c) \/ entityKeyConditionSchema(c)

RECURSIVE conditionSchema(_)

\* The conditions property of a logical condition is an array of conditions
\* (List) or one condition object (One).
List(seq) == [array |-> TRUE, elems |-> seq]
One(c) == [array |-> FALSE, elems |-> <<c>>]

\* and/or: conditions is an array of conditions (z.array, of any length);
\* not: conditions is one condition
logicalConditionSchema(c) ==
    /\ DOMAIN c = {"operator", "conditions"}
    /\ \/ /\ c.operator \in {"and", "or"}
          /\ c.conditions.array
          /\ \A i \in 1..Len(c.conditions.elems) : conditionSchema(c.conditions.elems[i])
       \/ /\ c.operator = "not"
          /\ ~c.conditions.array
          /\ conditionSchema(c.conditions.elems[1])

conditionSchema(c) == baseConditionSchema(c) \/ logicalConditionSchema(c)


(***************************************************************************)
(* policy-manager.ts                                                       *)
(***************************************************************************)
\* z.enum(this.resourcesTypes): the names a resource type is checked against
T == {resourcesTypes[i] : i \in 1..Len(resourcesTypes)}

\* constructor(resourcesTypes): the field is assigned and the two schemas are
\* built; z.enum keeps the list it is given without inspecting it, so nothing
\* is thrown whatever the list holds
constructor(universe) == Return(TRUE)

\* a schema that takes any string as the resource type
createPolicySchemaAnyResource(policy) ==
    /\ \/ DOMAIN policy = {"action", "resource"}
       \/ DOMAIN policy = {"action", "resource", "conditions"} /\ conditionSchema(policy.conditions)
    /\ policy.action \in actions

createPolicySchema(policy) ==
    /\ \/ DOMAIN policy = {"action", "resource"}
       \/ DOMAIN policy = {"action", "resource", "conditions"} /\ conditionSchema(policy.conditions)
    /\ policy.action \in actions
    /\ policy.resource \in T

createResourceSchema(resource) ==
    /\ DOMAIN resource = {"id", "type", "attributes"}
    /\ resource.type \in T
    /\ attributeSchema(resource.attributes)

\* throws a ZodError when the policy does not parse
validatePolicy(policy) == IF createPolicySchema(policy) THEN Return(TRUE) ELSE Throw("ZodError")

\* Map.get: the list under the key, or undefined (here the empty domain test)
Has(index, key) == key \in DOMAIN index

\* the policy put at the front of its list
PushFront(index, key, policy) ==
    IF Has(index, key)
    THEN [index EXCEPT ![key] = <<policy>> \o @]
    ELSE (key :> <<policy>>) @@ index

\* the index after policies.get(policyKey).push(policy), the list being
\* created first when the key is new
Push(index, key, policy) ==
    IF Has(index, key)
    THEN [index EXCEPT ![key] = Append(@, policy)]
    ELSE (key :> <<policy>>) @@ index

\* every policy filed under the read key of its resource type
PolicyKeyOfReadOnly(policy) == policy.resource \o ":" \o "read"

\* `${policy.resource}:${policy.action}`
PolicyKeyOf(policy) == policy.resource \o ":" \o policy.action

(***************************************************************************)
(* engine.ts: AuthEngine                                                   *)
(***************************************************************************)
\* str.slice(1)
getDynamicKey(str) == IF Len(str) <= 1 THEN "" ELSE SubSeq(str, 2, Len(str))

\* a key that leaves the action out of account
getPolicyKeyAnyAction(resource, action) == resource.type \o ":read"

getPolicyKey(resource, action) == resource.type \o ":" \o action

\* the operands taken in the other order
compareNumbersSwapped(operator, left, right) ==
    CASE operator = "gt" -> Return(right > left)
      [] operator = "gte" -> Return(right >= left)
      [] operator = "lt" -> Return(right < left)
      [] operator = "lte" -> Return(right <= left)
      [] OTHER -> Throw("Error")

compareNumbers(operator, left, right) ==
    CASE operator = "gt" -> Return(left > right)
      [] operator = "gte" -> Return(left >= right)
      [] operator = "lt" -> Return(left < right)
      [] operator = "lte" -> Return(left <= right)
      [] OTHER -> Throw("Error")

\* referenceValue.find((item) => typeof item === typeof value) !== undefined
FindSameType(items, value) == \E i \in 1..Len(items) : typeof(items[i]) = typeof(value)

\* referenceValue.find((item) => item === value) !== undefined
FindEqual(items, value) == \E i \in 1..Len(items) : items[i] = value

\* eq and ne without the check of the operand types
evaluateAttributeConditionUnchecked(condition, value) ==
    CASE condition.operator \in {"eq", "ne"} ->
            IF condition.operator = "eq"
            THEN Return(value = condition.referenceValue)
            ELSE Return(value # condition.referenceValue)
      [] condition.operator \in {"gt", "gte", "lt", "lte"} ->
            IF typeof(value) # "number"
            THEN Throw("InvalidOperandError")
            ELSE compareNumbers(condition.operator, value.num, condition.referenceValue.num)
      [] condition.operator \in {"in", "nin"} ->
            IF ~(typeof(value) # "boolean" /\ FindSameType(condition.referenceValue.items, value))
            THEN Throw("InvalidOperandError")
            ELSE LET includes == FindEqual(condition.referenceValue.items, value)
                 IN  IF condition.operator = "in" THEN Return(includes) ELSE Return(~includes)
      [] OTHER -> Throw("Error")

\* in and nin without the check of the operand types
evaluateAttributeConditionLenient(condition, value) ==
    CASE condition.operator \in {"eq", "ne"} ->
            IF typeof(value) # typeof(condition.referenceValue)
            THEN Throw("InvalidOperandError")
            ELSE IF condition.operator = "eq"
                 THEN Return(value = condition.referenceValue)
                 ELSE Return(value # condition.referenceValue)
      [] condition.operator \in {"gt", "gte", "lt", "lte"} ->
            IF typeof(value) # "number"
            THEN Throw("InvalidOperandError")
            ELSE compareNumbers(condition.operator, value.num, condition.referenceValue.num)
      [] condition.operator \in {"in", "nin"} ->
            LET includes == FindEqual(condition.referenceValue.items, value)
            IN  IF condition.operator = "in" THEN Return(includes) ELSE Return(~includes)
      [] OTHER -> Throw("Error")

\* value is a primitive (string, number or boolean)
evaluateAttributeCondition(condition, value) ==
    CASE condition.operator \in {"eq", "ne"} ->
            IF typeof(value) # typeof(condition.referenceValue)
            THEN Throw("InvalidOperandError")
            ELSE IF condition.operator = "eq"
                 THEN Return(value = condition.referenceValue)
                 ELSE Return(value # condition.referenceValue)
      [] condition.operator \in {"gt", "gte", "lt", "lte"} ->
            IF typeof(value) # "number"
            THEN Throw("InvalidOperandError")
            ELSE compareNumbers(condition.operator, value.num, condition.referenceValue.num)
      [] condition.operator \in {"in", "nin"} ->
            IF ~(typeof(value) # "boolean" /\ FindSameType(condition.referenceValue.items, value))
            THEN Throw("InvalidOperandError")
            ELSE LET includes == FindEqual(condition.referenceValue.items, value)
                 IN  IF condition.operator = "in" THEN Return(includes) ELSE Return(~includes)
      [] OTHER -> Throw("Error")

\* the collection read by collectionKey from the entity collectionSource
\* names, the target by targetKey from the other entity
evaluateEntityKeyConditionNatural(subject, resource, entityKeyCondition) ==
    IF entityKeyCollectionConditionSchema(entityKeyCondition)
    THEN LET condition == entityKeyCondition
             collectionKey == getDynamicKey(condition.collectionKey)
             targetKey == getDynamicKey(condition.targetKey)
             collectionValue == IF condition.collectionSource = "subject"
                                THEN Prop(subject.attributes, collectionKey)
                                ELSE Prop(resource.attributes, collectionKey)
             targetValue == IF condition.collectionSource = "subject"
                            THEN Prop(resource.attributes, targetKey)
                            ELSE Prop(subject.attributes, targetKey)
         IN  IF collectionValue = Undefined \/ targetValue = Undefined
             THEN Return(FALSE)
             ELSE IF isArray(targetValue)
             THEN Throw("InvalidOperandError")
             ELSE IF ~isArray(collectionValue)
             THEN Throw("InvalidOperandError")
             ELSE evaluateAttributeCondition(
                      [operator |-> condition.operator,
                       attributeKey |-> "this-is-ignored",
                       referenceValue |-> collectionValue],
                      targetValue)
    ELSE IF entityKeyPrimitiveConditionSchema(entityKeyCondition)
    THEN LET condition == entityKeyCondition
             subjectKey == getDynamicKey(condition.subjectKey)
             resourceKey == getDynamicKey(condition.resourceKey)
             subjectValue == Prop(subject.attributes, subjectKey)
             resourceValue == Prop(resource.attributes, resourceKey)
         IN  IF resourceValue = Undefined \/ subjectValue = Undefined
             THEN Return(FALSE)
             ELSE IF isArray(subjectValue)
             THEN Throw("InvalidOperandError")
             ELSE IF isArray(resourceValue)
             THEN Throw("InvalidOperandError")
             ELSE IF typeof(subjectValue) # typeof(resourceValue)
             THEN Throw("InvalidOperandError")
             ELSE IF entityKeyCondition.operator \in equalityOperators
             THEN evaluateAttributeCondition(
                      [operator |-> entityKeyCondition.operator,
                       referenceValue |-> resourceValue,
                       attributeKey |-> "this-is-ignored"],
                      subjectValue)
             ELSE IF entityKeyCondition.operator \in numericOperators
             THEN IF typeof(subjectValue) # "number"
                  THEN Throw("InvalidOperandError")
                  ELSE IF typeof(resourceValue) # "number"
                  THEN Throw("InvalidOperandError")
                  ELSE evaluateAttributeCondition(
                           [operator |-> entityKeyCondition.operator,
                            referenceValue |-> resourceValue,
                            attributeKey |-> "this-is-ignored"],
                           subjectValue)
             ELSE Throw("Error")
    ELSE Throw("Error")

evaluateEntityKeyCondition(subject, resource, entityKeyCondition) ==
    IF entityKeyCollectionConditionSchema(entityKeyCondition)
    THEN LET condition == entityKeyCondition
             collectionKey == getDynamicKey(condition.collectionKey)
             targetKey == getDynamicKey(condition.targetKey)
             collectionValue == IF condition.collectionSource = "subject"
                                THEN Prop(subject.attributes, targetKey)
                                ELSE Prop(resource.attributes, collectionKey)
             targetValue == IF condition.collectionSource = "subject"
                            THEN Prop(resource.attributes, collectionKey)
                            ELSE Prop(subject.attributes, targetKey)
         IN  IF collectionValue = Undefined \/ targetValue = Undefined
             THEN Return(FALSE)
             ELSE IF isArray(targetValue)
             THEN Throw("InvalidOperandError")
             ELSE IF ~isArray(collectionValue)
             THEN Throw("InvalidOperandError")
             ELSE evaluateAttributeCondition(
                      [operator |-> condition.operator,
                       attributeKey |-> "this-is-ignored",
                       referenceValue |-> collectionValue],
                      targetValue)
    ELSE IF entityKeyPrimitiveConditionSchema(entityKeyCondition)
    THEN LET condition == entityKeyCondition
             subjectKey == getDynamicKey(condition.subjectKey)
             resourceKey == getDynamicKey(condition.resourceKey)
             subjectValue == Prop(subject.attributes, subjectKey)
             resourceValue == Prop(resource.attributes, resourceKey)
         IN  IF resourceValue = Undefined \/ subjectValue = Undefined
             THEN Return(FALSE)
             ELSE IF isArray(subjectValue)
             THEN Throw("InvalidOperandError")
             ELSE IF isArray(resourceValue)
             THEN Throw("InvalidOperandError")
             ELSE IF typeof(subjectValue) # typeof(resourceValue)
             THEN Throw("InvalidOperandError")
             ELSE IF entityKeyCondition.operator \in equalityOperators
             THEN evaluateAttributeCondition(
                      [operator |-> entityKeyCondition.operator,
                       referenceValue |-> resourceValue,
                       attributeKey |-> "this-is-ignored"],
                      subjectValue)
             ELSE IF entityKeyCondition.operator \in numericOperators
             THEN IF typeof(subjectValue) # "number"
                  THEN Throw("InvalidOperandError")
                  ELSE IF typeof(resourceValue) # "number"
                  THEN Throw("InvalidOperandError")
                  ELSE evaluateAttributeCondition(
                           [operator |-> entityKeyCondition.operator,
                            referenceValue |-> resourceValue,
                            attributeKey |-> "this-is-ignored"],
                           subjectValue)
             ELSE Throw("Error")
    ELSE Throw("Error")

\* attributeCondition.compareSource, undefined when the property is absent
CompareSourceOf(attributeCondition) ==
    IF "compareSource" \in DOMAIN attributeCondition
    THEN attributeCondition.compareSource
    ELSE "undefined"

\* the array checks made before the test for a missing attribute
resolveAttributeConditionArrayFirst(subject, resource, attributeCondition) ==
    LET key == getDynamicKey(attributeCondition.attributeKey)
        resourceValue == Prop(resource.attributes, key)
        subjectValue == Prop(subject.attributes, key)
    IN  IF isArray(subjectValue) \/ isArray(resourceValue)
        THEN Throw("InvalidOperandError")
        ELSE IF CompareSourceOf(attributeCondition) = "subject" /\ subjectValue # Undefined
        THEN evaluateAttributeCondition(attributeCondition, subjectValue)
        ELSE IF CompareSourceOf(attributeCondition) = "resource" /\ resourceValue # Undefined
        THEN evaluateAttributeCondition(attributeCondition, resourceValue)
        ELSE IF resourceValue = Undefined \/ subjectValue = Undefined
        THEN Return(FALSE)
        ELSE LET resourceEval == evaluateAttributeCondition(attributeCondition, resourceValue)
                 subjectEval == evaluateAttributeCondition(attributeCondition, subjectValue)
             IN  IF ~Returned(resourceEval) THEN resourceEval
                 ELSE IF ~Returned(subjectEval) THEN subjectEval
                 ELSE Return(resourceEval.value /\ subjectEval.value)

\* the value of the named side tested for truth, not for undefined
resolveAttributeConditionTruthy(subject, resource, attributeCondition) ==
    LET key == getDynamicKey(attributeCondition.attributeKey)
        resourceValue == Prop(resource.attributes, key)
        subjectValue == Prop(subject.attributes, key)
        source == CompareSourceOf(attributeCondition)
        resourceEval == evaluateAttributeCondition(attributeCondition, resourceValue)
        subjectEval == evaluateAttributeCondition(attributeCondition, subjectValue)
    IN  IF source = "subject" /\ subjectValue \notin {Undefined, Bool(FALSE), Num(0), Str("")}
        THEN IF isArray(subjectValue) THEN Throw("InvalidOperandError") ELSE subjectEval
        ELSE IF source = "resource" /\ resourceValue \notin {Undefined, Bool(FALSE), Num(0), Str("")}
        THEN IF isArray(resourceValue) THEN Throw("InvalidOperandError") ELSE resourceEval
        ELSE IF resourceValue = Undefined \/ subjectValue = Undefined
        THEN Return(FALSE)
        ELSE IF isArray(subjectValue) \/ isArray(resourceValue)
        THEN Throw("InvalidOperandError")
        ELSE IF ~Returned(resourceEval) THEN resourceEval
             ELSE IF ~Returned(subjectEval) THEN subjectEval
             ELSE Return(resourceEval.value /\ subjectEval.value)

\* the two sides combined with ||
resolveAttributeConditionEither(subject, resource, attributeCondition) ==
    LET key == getDynamicKey(attributeCondition.attributeKey)
        resourceValue == Prop(resource.attributes, key)
        subjectValue == Prop(subject.attributes, key)
        source == CompareSourceOf(attributeCondition)
        resourceEval == evaluateAttributeCondition(attributeCondition, resourceValue)
        subjectEval == evaluateAttributeCondition(attributeCondition, subjectValue)
    IN  IF source = "subject" /\ subjectValue # Undefined
        THEN IF isArray(subjectValue) THEN Throw("InvalidOperandError") ELSE subjectEval
        ELSE IF source = "resource" /\ resourceValue # Undefined
        THEN IF isArray(resourceValue) THEN Throw("InvalidOperandError") ELSE resourceEval
        ELSE IF resourceValue = Undefined \/ subjectValue = Undefined
        THEN Return(FALSE)
        ELSE IF isArray(subjectValue) \/ isArray(resourceValue)
        THEN Throw("InvalidOperandError")
        ELSE IF ~Returned(resourceEval) THEN resourceEval
             ELSE IF ~Returned(subjectEval) THEN subjectEval
             ELSE Return(resourceEval.value \/ subjectEval.value)

\* the subject side evaluated only when the resource side is true
resolveAttributeConditionShortCircuit(subject, resource, attributeCondition) ==
    LET key == getDynamicKey(attributeCondition.attributeKey)
        resourceValue == Prop(resource.attributes, key)
        subjectValue == Prop(subject.attributes, key)
        source == CompareSourceOf(attributeCondition)
        resourceEval == evaluateAttributeCondition(attributeCondition, resourceValue)
        subjectEval == evaluateAttributeCondition(attributeCondition, subjectValue)
    IN  IF source = "subject" /\ subjectValue # Undefined
        THEN IF isArray(subjectValue) THEN Throw("InvalidOperandError") ELSE subjectEval
        ELSE IF source = "resource" /\ resourceValue # Undefined
        THEN IF isArray(resourceValue) THEN Throw("InvalidOperandError") ELSE resourceEval
        ELSE IF resourceValue = Undefined \/ subjectValue = Undefined
        THEN Return(FALSE)
        ELSE IF isArray(subjectValue) \/ isArray(resourceValue)
        THEN Throw("InvalidOperandError")
        ELSE IF ~Returned(resourceEval) THEN resourceEval
             ELSE IF ~resourceEval.value THEN Return(FALSE)
             ELSE subjectEval

resolveAttributeCondition(subject, resource, attributeCondition) ==
    LET key == getDynamicKey(attributeCondition.attributeKey)
        resourceValue == Prop(resource.attributes, key)
        subjectValue == Prop(subject.attributes, key)
        isSubjectArray == isArray(subjectValue)
        isResourceArray == isArray(resourceValue)
    IN  IF CompareSourceOf(attributeCondition) = "subject" /\ subjectValue # Undefined
        THEN IF isSubjectArray
             THEN Throw("InvalidOperandError")
             ELSE evaluateAttributeCondition(attributeCondition, subjectValue)
        ELSE IF CompareSourceOf(attributeCondition) = "resource" /\ resourceValue # Undefined
        THEN IF isResourceArray
             THEN Throw("InvalidOperandError")
             ELSE evaluateAttributeCondition(attributeCondition, resourceValue)
        ELSE IF resourceValue = Undefined \/ subjectValue = Undefined
        THEN Return(FALSE)
        ELSE IF isSubjectArray
        THEN Throw("InvalidOperandError")
        ELSE IF isResourceArray
        THEN Throw("InvalidOperandError")
        ELSE LET resourceEval == evaluateAttributeCondition(attributeCondition, resourceValue)
                 subjectEval == evaluateAttributeCondition(attributeCondition, subjectValue)
             IN  IF ~Returned(resourceEval) THEN resourceEval
                 ELSE IF ~Returned(subjectEval) THEN subjectEval
                 ELSE Return(resourceEval.value /\ subjectEval.value)

RECURSIVE evaluate(_, _, _, _)
RECURSIVE every(_, _, _, _, _)
RECURSIVE some(_, _, _, _, _)

\* the logical condition whose evaluation the "not" case negates
NotOperand(logicalCondition) == logicalCondition

\* depth is the number of evaluate() frames on the call stack
evaluateLogicalCondition(subject, resource, logicalCondition, depth) ==
    CASE logicalCondition.operator = "and" ->
            every(subject, resource, logicalCondition.conditions.elems, 1, depth)
      [] logicalCondition.operator = "or" ->
            some(subject, resource, logicalCondition.conditions.elems, 1, depth)
      [] logicalCondition.operator = "not" ->
            LET res == evaluate(subject, resource, NotOperand(logicalCondition), depth + 1)
            IN  IF Returned(res) THEN Return(~res.value) ELSE res
      [] OTHER -> Throw("Error")

\* every element evaluated before the results are combined
everyEager(subject, resource, conditions, i, depth) ==
    LET res(j) == evaluate(subject, resource, conditions[j], depth + 1)
        n == Len(conditions)
    IN  IF \E j \in i..n : ~Returned(res(j))
        THEN res(CHOOSE j \in i..n : ~Returned(res(j)) /\ \A k \in i..(j - 1) : Returned(res(k)))
        ELSE Return(\A j \in i..n : res(j).value)

\* conditions.every((c) => this.evaluate(subject, resource, c, debug)), from index i
every(subject, resource, conditions, i, depth) ==
    IF i > Len(conditions)
    THEN Return(TRUE)
    ELSE LET res == evaluate(subject, resource, conditions[i], depth + 1)
         IN  IF ~Returned(res) THEN res
             ELSE IF ~res.value THEN Return(FALSE)
             ELSE every(subject, resource, conditions, i + 1, depth)

\* an element that throws counted as false
someCatching(subject, resource, conditions, i, depth) ==
    Return(\E j \in i..Len(conditions) :
              LET res == evaluate(subject, resource, conditions[j], depth + 1)
              IN  Returned(res) /\ res.value)

\* conditions.some((c) => this.evaluate(subject, resource, c, debug)), from index i
some(subject, resource, conditions, i, depth) ==
    IF i > Len(conditions)
    THEN Return(FALSE)
    ELSE LET res == evaluate(subject, resource, conditions[i], depth + 1)
         IN  IF ~Returned(res) THEN res
             ELSE IF res.value THEN Return(TRUE)
             ELSE some(subject, resource, conditions, i + 1, depth)

\* a call that would need more than MaxStack frames throws
\* RangeError: Maximum call stack size exceeded
evaluate(subject, resource, condition, depth) ==
    IF depth > MaxStack
    THEN Throw("RangeError")
    ELSE IF attributeConditionSchema(condition)
    THEN resolveAttributeCondition(subject, resource, condition)
    ELSE IF entityKeyConditionSchema(condition)
    THEN evaluateEntityKeyCondition(subject, resource, condition)
    ELSE IF logicalConditionSchema(condition)
    THEN evaluateLogicalCondition(subject, resource, condition, depth)
    ELSE Throw("Error")

abac(subject, resource, policy) ==
    IF "conditions" \notin DOMAIN policy
    THEN Return(TRUE)
    ELSE evaluate(subject, resource, policy.conditions, 1)

\* this.policies.get(policyKey) || []
RelevantPolicies(index, policyKey) == IF Has(index, policyKey) THEN index[policyKey] ELSE <<>>

\* the options argument of the constructor: an object, or undefined when
\* the engine is constructed with the index alone
OptionsUndefined == [given |-> FALSE, debug |-> FALSE, logger |-> FALSE]
Options(d) == [given |-> TRUE, debug |-> d, logger |-> FALSE]
\* an options object with the debug flag set and a logger function
OptionsLogger == [given |-> TRUE, debug |-> TRUE, logger |-> TRUE]

\* debug || this.options.debug: reading a property of undefined throws
DebugArgument(options, debug) ==
    IF debug THEN Return(TRUE)
    ELSE IF ~options.given THEN Throw("TypeError")
    ELSE Return(options.debug)

\* the result of isAuthorized, with the number of policies abac was called on
Visited(res, n) == [raised |-> res.raised, value |-> res.value, visited |-> n]

\* the loop returning the decision of the first policy it meets
PolicyLoopFirstOnly(options, relevantPolicies, i, subject, resource, debug) ==
    IF i > Len(relevantPolicies)
    THEN Visited(Return(FALSE), i - 1)
    ELSE LET arg == DebugArgument(options, debug)
             res == abac(subject, resource, relevantPolicies[i])
         IN  IF ~Returned(arg) THEN Visited(arg, i - 1) ELSE Visited(res, i)

\* every policy of the list evaluated before the results are combined
PolicyLoopEager(options, relevantPolicies, i, subject, resource, debug) ==
    LET n == Len(relevantPolicies)
        arg == DebugArgument(options, debug)
        res(j) == abac(subject, resource, relevantPolicies[j])
    IN  IF n = 0 THEN Visited(Return(FALSE), 0)
        ELSE IF ~Returned(arg) THEN Visited(arg, 0)
        ELSE IF \E j \in 1..n : ~Returned(res(j))
        THEN Visited(res(CHOOSE j \in 1..n : ~Returned(res(j))), n)
        ELSE Visited(Return(\E j \in 1..n : res(j).value), n)

RECURSIVE PolicyLoop(_, _, _, _, _, _)

\* for (const policy of relevantPolicies) ..., from index i; the argument
\* debug || this.options.debug is evaluated before abac is called
PolicyLoop(options, relevantPolicies, i, subject, resource, debug) ==
    IF i > Len(relevantPolicies)
    THEN Visited(Return(FALSE), i - 1)
    ELSE LET arg == DebugArgument(options, debug)
             res == abac(subject, resource, relevantPolicies[i])
         IN  IF ~Returned(arg) THEN Visited(arg, i - 1)
             ELSE IF ~Returned(res) THEN Visited(res, i)
             ELSE IF res.value THEN Visited(Return(TRUE), i)
             ELSE PolicyLoop(options, relevantPolicies, i + 1, subject, resource, debug)

\* the debug argument computed once, before the loop
isAuthorizedHoisted(options, index, subject, resource, action, debug) ==
    LET policyKey == getPolicyKey(resource, action)
        relevantPolicies == RelevantPolicies(index, policyKey)
        arg == DebugArgument(options, debug)
    IN  IF ~Returned(arg) THEN Visited(arg, 0)
        ELSE PolicyLoop(options, relevantPolicies, 1, subject, resource, debug)

isAuthorized(options, index, subject, resource, action, debug) ==
    LET policyKey == getPolicyKey(resource, action)
        relevantPolicies == RelevantPolicies(index, policyKey)
    IN  PolicyLoop(options, relevantPolicies, 1, subject, resource, debug)

(***************************************************************************)
(* engine.ts: what a call writes. A count of the records handed to the     *)
(* logger function and of the lines written with console.log.              *)
(***************************************************************************)
\* log(message, data, debug, logger, args): the logger is called when both
\* it and args are passed, console.log when debug is set
log(debug, logger, args) ==
    [logger |-> IF logger /\ args THEN 1 ELSE 0, console |-> IF debug THEN 1 ELSE 0]

\* n calls this.log(message, data, debug): no call in the class passes a
\* fourth or a fifth argument
Logs(n, debug) ==
    LET each == log(debug, FALSE, FALSE)
    IN  [logger |-> IF each.logger = 0 THEN 0 ELSE n * each.logger,
         console |-> IF each.console = 0 THEN 0 ELSE n * each.console]

RECURSIVE evaluateLogs(_, _, _, _)
RECURSIVE everyLogs(_, _, _, _, _)
RECURSIVE someLogs(_, _, _, _, _)

\* the number of this.log calls conditions.every(...) makes from element i:
\* the elements up to the first that returns false or throws are evaluated
everyLogs(subject, resource, conditions, i, depth) ==
    IF i > Len(conditions) THEN 0
    ELSE LET res == evaluate(subject, resource, conditions[i], depth)
             n == evaluateLogs(subject, resource, conditions[i], depth)
         IN  IF Returned(res) /\ res.value
             THEN n + everyLogs(subject, resource, conditions, i + 1, depth)
             ELSE n

\* the same for conditions.some(...), which stops at the first true element
someLogs(subject, resource, conditions, i, depth) ==
    IF i > Len(conditions) THEN 0
    ELSE LET res == evaluate(subject, resource, conditions[i], depth)
             n == evaluateLogs(subject, resource, conditions[i], depth)
         IN  IF Returned(res) /\ ~res.value
             THEN n + someLogs(subject, resource, conditions, i + 1, depth)
             ELSE n

\* the number of this.log calls evaluate(subject, resource, condition) makes:
\* one for the kind of the condition, one for the values of a leaf, and
\* those of the conditions a logical condition evaluates
evaluateLogs(subject, resource, condition, depth) ==
    IF depth > MaxStack THEN 0
    ELSE IF attributeConditionSchema(condition) THEN 2
    ELSE IF entityKeyConditionSchema(condition) THEN 2
    ELSE IF condition.operator = "and"
    THEN 1 + everyLogs(subject, resource, condition.conditions.elems, 1, depth + 1)
    ELSE IF condition.operator = "or"
    THEN 1 + someLogs(subject, resource, condition.conditions.elems, 1, depth + 1)
    ELSE 1 + evaluateLogs(subject, resource, NotOperand(condition), depth + 1)

\* the number of this.log calls abac makes on one policy
abacLogs(subject, resource, policy) ==
    IF "conditions" \notin DOMAIN policy THEN 1
    ELSE evaluateLogs(subject, resource, policy.conditions, 1)

RECURSIVE SumAbacLogs(_, _, _, _)
SumAbacLogs(subject, resource, relevantPolicies, n) ==
    IF n = 0 THEN 0
    ELSE abacLogs(subject, resource, relevantPolicies[n])
         + SumAbacLogs(subject, resource, relevantPolicies, n - 1)

\* what one isAuthorized call writes: four this.log calls with the debug
\* parameter, then those of every policy abac is called on, with
\* debug || this.options.debug
isAuthorizedLogs(options, index, subject, resource, action, debug) ==
    LET relevantPolicies == RelevantPolicies(index, getPolicyKey(resource, action))
        res == isAuthorized(options, index, subject, resource, action, debug)
        head == Logs(4, debug)
        body == Logs(SumAbacLogs(subject, resource, relevantPolicies, res.visited),
                     debug \/ (options.given /\ options.debug))
    IN  [logger |-> head.logger + body.logger, console |-> head.console + body.console]

(***************************************************************************)
(* The inputs of the model: conditions, policies and entities.             *)
(***************************************************************************)
IsAdmin ==
    [operator |-> "eq", attributeKey |-> "$role", referenceValue |-> Str("admin"),
     compareSource |-> "subject"]

LevelAbove ==
    [operator |-> "gt", attributeKey |-> "$level", referenceValue |-> Num(5),
     compareSource |-> "resource"]

IsOwner == [operator |-> "eq", subjectKey |-> "$id", resourceKey |-> "$ownerId"]

NotAdmin == [operator |-> "not", conditions |-> One(IsAdmin)]

OwnerOrAdmin == [operator |-> "or", conditions |-> List(<<IsOwner, IsAdmin>>)]

\* the policies handed to addPolicy; the last three do not parse
PolicyPool ==
    { [action |-> "read", resource |-> "order"],
      [action |-> "read", resource |-> "order", conditions |-> IsAdmin],
      [action |-> "read", resource |-> "order", conditions |-> LevelAbove],
      [action |-> "read", resource |-> "order", conditions |-> OwnerOrAdmin],
      [action |-> "update", resource |-> "order", conditions |-> IsOwner],
      [action |-> "read", resource |-> "user"],
      [action |-> "read", resource |-> "file"],
      [action |-> "share", resource |-> "order"],
      [action |-> "read", resource |-> "order",
       conditions |-> [operator |-> "gt", attributeKey |-> "level", referenceValue |-> Num(5)]] }

NoAttributes == [k \in {} |-> Undefined]

SubjectAttributes ==
    { NoAttributes,
      [k \in {"id", "role"} |-> IF k = "id" THEN Str("u1") ELSE Str("user")],
      [k \in {"id", "role"} |-> IF k = "id" THEN Str("u2") ELSE Str("admin")] }

ResourceAttributes ==
    { NoAttributes,
      [k \in {"ownerId", "level"} |-> IF k = "ownerId" THEN Str("u1") ELSE Num(7)],
      [k \in {"ownerId", "level"} |-> IF k = "ownerId" THEN Str("u1") ELSE Str("seven")] }

Entity(type, attributes) == [id |-> "1", type |-> type, attributes |-> attributes]

Subjects == {Entity("user", a) : a \in SubjectAttributes}
Resources == {Entity("order", a) : a \in ResourceAttributes} \cup {Entity("user", NoAttributes)}
QueryActions == {"read", "update"}
EngineOptions == {OptionsUndefined, Options(FALSE)}

\* the universe of the test suite
ResourceTypes == <<"user", "product", "order">>
\* the lists handed to new PolicyManager
Universes == {<<>>, <<"user", "user">>, ResourceTypes}

\* the lists handed to addPolicies: the second policy of the first list does
\* not parse
PolicyLists ==
    { <<[action |-> "read", resource |-> "order"],
        [action |-> "read", resource |-> "file"],
        [action |-> "read", resource |-> "user"]>>,
      <<[action |-> "update", resource |-> "order", conditions |-> IsOwner],
        [action |-> "read", resource |-> "user"]>>,
      <<[action |-> "read", resource |-> "order", conditions |-> NotAdmin],
        [action |-> "read", resource |-> "order"]>> }

(***************************************************************************)
(* The state machine: one PolicyManager, one AuthEngine built on its index.*)
(***************************************************************************)
RECURSIVE SumLen(_, _)
SumLen(index, keys) ==
    IF keys = {} THEN 0
    ELSE LET k == CHOOSE k \in keys : TRUE
         IN  Len(index[k]) + SumLen(index, keys \ {k})

\* the number of policies in the index
Size(index) == SumLen(index, DOMAIN index)

NoIndex == [k \in {} |-> <<>>]
NoQuery == [subject |-> Entity("", NoAttributes), resource |-> Entity("", NoAttributes),
            action |-> "", debug |-> FALSE]
NoLogs == [logger |-> 0, console |-> 0]
\* the result of the last operation; visited counts the policies an
\* isAuthorized call evaluated, logger and console what it wrote
Logged(op, res, logs) ==
    [op |-> op, raised |-> res.raised, value |-> res.value,
     visited |-> IF "visited" \in DOMAIN res THEN res.visited ELSE 0,
     logger |-> logs.logger, console |-> logs.console]
Result(op, res) == Logged(op, res, NoLogs)

RECURSIVE addPolicies(_, _)
RECURSIVE addPoliciesSkipping(_, _)
RECURSIVE addPoliciesResult(_)

\* new PolicyManager(universe)
Init ==
    /\ resourcesTypes \in Universes
    /\ policies = NoIndex
    /\ engine = [constructed |-> FALSE, options |-> OptionsUndefined]
    /\ query = NoQuery
    /\ argument = <<>>
    /\ outcome = Result("new PolicyManager", constructor(resourcesTypes))

\* the policy pushed before it is validated
addPolicyPushFirst(index, policy) == Push(index, PolicyKeyOf(policy), policy)

\* the index after addPolicy(policy), which throws before it changes anything
\* when the policy does not parse
addPolicy(index, policy) ==
    IF Returned(validatePolicy(policy))
    THEN Push(index, PolicyKeyOf(policy), policy)
    ELSE index

\* a policy that does not parse skipped, and the rest of the list registered
addPoliciesSkipping(index, list) ==
    IF list = <<>> THEN index
    ELSE addPoliciesSkipping(addPolicy(index, Head(list)), Tail(list))

\* the index after addPolicies(list): addPolicy on each policy in order, up
\* to the first one that does not parse
addPolicies(index, list) ==
    IF list = <<>> \/ ~Returned(validatePolicy(Head(list)))
    THEN index
    ELSE addPolicies(addPolicy(index, Head(list)), Tail(list))

\* what addPolicies(list) returns or throws: the error of the first policy
\* that does not parse
addPoliciesResult(list) ==
    IF list = <<>> THEN Return(TRUE)
    ELSE IF ~Returned(validatePolicy(Head(list))) THEN validatePolicy(Head(list))
    ELSE addPoliciesResult(Tail(list))

\* createResource(resource): this.resourceSchema.parse(resource), which
\* returns the parsed resource (value TRUE) or throws
createResource(resource) ==
    IF createResourceSchema(resource) THEN Return(TRUE) ELSE Throw("ZodError")

\* a Map handed out as a new Map holding the entries of the moment
getPoliciesCopy == [object |-> "copy", entries |-> policies]

\* getPolicies(): return this.policies, the manager's Map itself and not
\* its entries
getPolicies == [object |-> "this.policies"]

\* the entries of a Map: those of the manager's Map are the variable
\* policies, another Map has its own
Entries(map) == IF map.object = "this.policies" THEN policies ELSE map.entries

\* the manager's index after map.clear(): emptied when map is the manager's
\* own Map
clear(map) == IF map.object = "this.policies" THEN NoIndex ELSE policies

AddPolicy(policy) ==
    /\ Size(policies) < MaxPolicies
    /\ policies' = addPolicy(policies, policy)
    /\ argument' = <<policy>>
    /\ outcome' = Result("addPolicy", validatePolicy(policy))
    /\ UNCHANGED <<resourcesTypes, engine, query>>

AddPolicies(list) ==
    /\ Size(addPolicies(policies, list)) <= MaxPolicies
    /\ policies' = addPolicies(policies, list)
    /\ argument' = list
    /\ outcome' = Result("addPolicies", addPoliciesResult(list))
    /\ UNCHANGED <<resourcesTypes, engine, query>>

CreateResource(resource) ==
    /\ argument' = <<resource>>
    /\ outcome' = Result("createResource", createResource(resource))
    /\ UNCHANGED <<resourcesTypes, policies, engine, query>>

\* new AuthEngine(policyManager.getPolicies(), options): the engine keeps the
\* Map it is given
NewAuthEngine(options) ==
    /\ ~engine.constructed
    /\ engine' = [constructed |-> TRUE, options |-> options, policies |-> getPolicies]
    /\ argument' = <<>>
    /\ outcome' = Result("new AuthEngine", Return(TRUE))
    /\ UNCHANGED <<resourcesTypes, policies, query>>

\* a call that files an empty list under a key the index does not hold
IsAuthorizedCreatesList(subject, resource, action, debug) ==
    /\ engine.constructed
    /\ query' = [subject |-> subject, resource |-> resource, action |-> action, debug |-> debug]
    /\ argument' = <<>>
    /\ outcome' = Logged("isAuthorized",
                         isAuthorized(engine.options, Entries(engine.policies),
                                      subject, resource, action, debug),
                         isAuthorizedLogs(engine.options, Entries(engine.policies),
                                          subject, resource, action, debug))
    /\ policies' = IF Has(policies, getPolicyKey(resource, action)) THEN policies
                   ELSE (getPolicyKey(resource, action) :> <<>>) @@ policies
    /\ UNCHANGED <<resourcesTypes, engine>>

IsAuthorized(subject, resource, action, debug) ==
    /\ engine.constructed
    /\ query' = [subject |-> subject, resource |-> resource, action |-> action, debug |-> debug]
    /\ argument' = <<>>
    /\ outcome' = Logged("isAuthorized",
                         isAuthorized(engine.options, Entries(engine.policies),
                                      subject, resource, action, debug),
                         isAuthorizedLogs(engine.options, Entries(engine.policies),
                                          subject, resource, action, debug))
    /\ UNCHANGED <<resourcesTypes, policies, engine>>

Next ==
    \/ \E policy \in PolicyPool : AddPolicy(policy)
    \/ \E list \in PolicyLists : AddPolicies(list)
    \/ \E options \in EngineOptions : NewAuthEngine(options)
    \/ \E subject \in Subjects, resource \in Resources, action \in QueryActions, debug \in BOOLEAN :
          IsAuthorized(subject, resource, action, debug)

Spec == Init /\ [][Next]_vars

(***************************************************************************)
(* The evaluator on its own: the engine is built with an options object on *)
(* an empty index, one list is registered under "order:read" through       *)
(* addPolicies, and one query is made. Before the registration one         *)
(* resource may be created instead.                                        *)
(***************************************************************************)
Primitives == {Str("x"), Str(""), Num(0), Num(1), Num(2), Bool(TRUE), Bool(FALSE)}
Arrays == {Arr(<<>>), Arr(<<Str("x")>>), Arr(<<Num(1), Num(2)>>)}
Values == Primitives \cup Arrays

\* attribute maps with at most one of the attributes a and b
OneAttribute(name, v) == [k \in {name} |-> v]
EvalSubjectAttributes == {NoAttributes} \cup {OneAttribute("a", v) : v \in Values}
EvalResourceAttributes ==
    {NoAttributes} \cup {OneAttribute("a", v) : v \in Values} \cup {OneAttribute("b", v) : v \in Values}

EvalSubjects == {s \in {Entity("user", a) : a \in EvalSubjectAttributes} : createResourceSchema(s)}
EvalResources == {r \in {Entity("order", a) : a \in EvalResourceAttributes} : createResourceSchema(r)}

WithSource(c, source) ==
    [operator |-> c.operator, attributeKey |-> c.attributeKey,
     referenceValue |-> c.referenceValue, compareSource |-> source]

AttributeConditionsNoSource ==
    {[operator |-> op, attributeKey |-> "$a", referenceValue |-> ref] :
        op \in equalityOperators, ref \in {Str("x"), Num(1), Bool(TRUE)}}
    \cup {[operator |-> op, attributeKey |-> "$a", referenceValue |-> Num(1)] : op \in numericOperators}
    \cup {[operator |-> op, attributeKey |-> "$a", referenceValue |-> ref] :
            op \in collectionOperators, ref \in Arrays}

AttributeConditions ==
    AttributeConditionsNoSource
    \cup {WithSource(c, source) : c \in AttributeConditionsNoSource, source \in compareSource}

EntityKeyConditions ==
    {[operator |-> op, subjectKey |-> "$a", resourceKey |-> "$b"] :
        op \in equalityOperators \cup numericOperators}
    \cup {[operator |-> op, targetKey |-> "$a", collectionKey |-> "$b", collectionSource |-> source] :
            op \in collectionOperators, source \in compareSource}

LeafConditions == AttributeConditions \cup EntityKeyConditions

\* leaves that combine under and/or: with the subject's a = "x" the first is
\* true, the second false, the third raises, and the fourth is false
\* when the resource has no attribute b
PairLeaves ==
    { [operator |-> "eq", attributeKey |-> "$a", referenceValue |-> Str("x"), compareSource |-> "subject"],
      [operator |-> "ne", attributeKey |-> "$a", referenceValue |-> Str("x"), compareSource |-> "subject"],
      [operator |-> "gt", attributeKey |-> "$a", referenceValue |-> Num(1), compareSource |-> "subject"],
      [operator |-> "eq", subjectKey |-> "$a", resourceKey |-> "$b"] }

Not(c) == [operator |-> "not", conditions |-> One(c)]
Logical(op, seq) == [operator |-> op, conditions |-> List(seq)]

LogicalConditions ==
    {Not(c) : c \in LeafConditions}
    \cup {Not(Not(c)) : c \in LeafConditions}
    \cup {Logical(op, <<>>) : op \in {"and", "or"}}
    \cup {Logical(op, <<c>>) : op \in {"and", "or"}, c \in LeafConditions}
    \cup {Logical(op, <<c, d>>) : op \in {"and", "or"}, c \in PairLeaves, d \in PairLeaves}
    \cup {Logical(op, <<Logical(inner, <<c>>), d>>) :
            op \in {"and", "or"}, inner \in {"and", "or"}, c \in PairLeaves, d \in PairLeaves}

EvalConditions == LeafConditions \cup LogicalConditions

ReadOrder(c) == [action |-> "read", resource |-> "order", conditions |-> c]

\* the policies registered before the one under study: one that grants no
\* query of the model (no subject has a role) and one that grants them all
EarlierPolicies == {ReadOrder(IsAdmin), [action |-> "read", resource |-> "order"]}

EvalLists ==
    {<<ReadOrder(c)>> : c \in EvalConditions}
    \cup {<<q, ReadOrder(c)>> : q \in EarlierPolicies, c \in AttributeConditions}

\* logical conditions with an empty list below the top
EmptyLogicalConditions ==
    {Logical(op, <<Logical(inner, <<>>)>>) : op \in {"and", "or"}, inner \in {"and", "or"}}
    \cup {Logical(op, <<c, Logical(inner, <<>>)>>) :
            op \in {"and", "or"}, inner \in {"and", "or"}, c \in PairLeaves}

\* a not whose conditions is a list, at the top and below it
NotOfList(seq) == [operator |-> "not", conditions |-> List(seq)]
NotOfListConditions ==
    {NotOfList(seq) : seq \in {<<>>, <<IsAdmin>>, <<IsAdmin, IsOwner>>}}
    \cup {Logical(op, <<NotOfList(seq)>>) : op \in {"and", "or"}, seq \in {<<>>, <<IsAdmin>>}}

\* policies that are not policies of the universe
OtherPolicies ==
    {ReadOrder(c) : c \in NotOfListConditions}
    \cup { [action |-> "read", resource |-> "file"],
           [action |-> "share", resource |-> "order"],
           [action |-> "read"],
           ReadOrder([operator |-> "eq", attributeKey |-> "a", referenceValue |-> Str("x")]),
           ReadOrder([operator |-> "xor", conditions |-> List(<<IsAdmin>>)]) }

RegisterLists ==
    EvalLists
    \cup {<<ReadOrder(c)>> : c \in EmptyLogicalConditions}
    \cup {<<p>> : p \in OtherPolicies}
    \cup {<<q, p, r>> : q \in EarlierPolicies, p \in OtherPolicies, r \in EarlierPolicies}
    \cup {<<q, r, p>> : q \in EarlierPolicies, p \in OtherPolicies, r \in EarlierPolicies}

\* attribute values outside the five kinds: arrays of booleans, mixed
\* arrays, arrays of arrays, and undefined
OtherValues ==
    {Arr(<<Bool(TRUE)>>), Arr(<<Str("x"), Num(1)>>), Arr(<<Num(1), Bool(FALSE)>>),
     Arr(<<Arr(<<>>)>>), Undefined}

CreateAttributes ==
    EvalResourceAttributes
    \cup {OneAttribute("a", v) : v \in OtherValues}
    \cup {[k \in {"a", "b"} |-> IF k = "a" THEN Str("x") ELSE v] : v \in Values \cup OtherValues}

\* the objects handed to createResource
ResourceInputs == {Entity(type, a) : type \in {"user", "order", "file", ""}, a \in CreateAttributes}

EvalEngineOptions == {Options(FALSE), OptionsLogger}

InitEvaluate ==
    /\ resourcesTypes = ResourceTypes
    /\ policies = NoIndex
    /\ \E options \in EvalEngineOptions :
          engine = [constructed |-> TRUE, options |-> options, policies |-> getPolicies]
    /\ query = NoQuery
    /\ argument = <<>>
    /\ outcome = Result("new AuthEngine", Return(TRUE))

\* the one registration, on the new manager
Register(list) ==
    /\ outcome.op = "new AuthEngine"
    /\ AddPolicies(list)

\* the one resource created on the new manager
Create(resource) ==
    /\ outcome.op = "new AuthEngine"
    /\ CreateResource(resource)

Evaluate(subject, resource) ==
    /\ outcome.op = "addPolicies"
    /\ IsAuthorized(subject, resource, "read", FALSE)

NextEvaluate ==
    \/ \E list \in RegisterLists : Register(list)
    \/ \E resource \in ResourceInputs : Create(resource)
    \/ \E subject \in EvalSubjects, resource \in EvalResources : Evaluate(subject, resource)

SpecEvaluate == InitEvaluate /\ [][NextEvaluate]_vars

(***************************************************************************)
(* The engine and the manager on one Map: the engine is built on the Map   *)
(* getPolicies returns while the manager is empty; policies are then       *)
(* registered one by one, the Map getPolicies returns is cleared by its    *)
(* holder, and queries are made.                                           *)
(***************************************************************************)
InitShared ==
    /\ resourcesTypes = ResourceTypes
    /\ policies = NoIndex
    /\ \E options \in EngineOptions :
          engine = [constructed |-> TRUE, options |-> options, policies |-> getPolicies]
    /\ query = NoQuery
    /\ argument = <<>>
    /\ outcome = Result("new AuthEngine", Return(TRUE))

\* policyManager.getPolicies().clear()
ClearPolicies ==
    /\ policies' = clear(getPolicies)
    /\ argument' = <<>>
    /\ outcome' = Result("getPolicies().clear", Return(TRUE))
    /\ UNCHANGED <<resourcesTypes, engine, query>>

NextShared ==
    \/ \E policy \in PolicyPool : AddPolicy(policy)
    \/ ClearPolicies
    \/ \E subject \in Subjects, resource \in Resources, action \in QueryActions, debug \in BOOLEAN :
          IsAuthorized(subject, resource, action, debug)

SpecShared == InitShared /\ [][NextShared]_vars

(***************************************************************************)
(* The properties.                                                         *)
(***************************************************************************)
\* the key and the list the last isAuthorized call is about
QueryKey == query.resource.type \o ":" \o query.action
QueryList == IF QueryKey \in DOMAIN policies THEN policies[QueryKey] ELSE <<>>
Queried == outcome.op = "isAuthorized"

\* the policy has no conditions, or its conditions evaluate to true for the query
Grants(policy) ==
    \/ "conditions" \notin DOMAIN policy
    \/ evaluate(query.subject, query.resource, policy.conditions, 1) = Return(TRUE)

\* the policy's conditions raise for the query
Raises(policy) ==
    /\ "conditions" \in DOMAIN policy
    /\ ~Returned(evaluate(query.subject, query.resource, policy.conditions, 1))

\* the index cut down to the list of the queried key
OnlyQueryKey == [k \in DOMAIN policies \cap {QueryKey} |-> policies[k]]

\* C1: when isAuthorized returns, it returns true if and only if some policy
\* in the list under "<resource.type>:<action>" has no conditions or has
\* conditions that evaluate to true; the lists under other keys and the type
\* of the subject do not change the result.
C1_TrueIffSomePolicyGrants ==
    (Queried /\ outcome.raised = "none") =>
        /\ outcome.value = (\E i \in 1..Len(QueryList) : Grants(QueryList[i]))
        /\ \A t \in T :
              LET res == isAuthorized(engine.options, OnlyQueryKey,
                                      [query.subject EXCEPT !.type = t],
                                      query.resource, query.action, query.debug)
              IN  res.raised = "none" /\ res.value = outcome.value

\* a call returns true through the second policy of a list, the first one
\* not granting, while another key holds a policy too
C1_Witness ==
    /\ Queried /\ outcome.raised = "none" /\ outcome.value
    /\ Len(QueryList) = 2
    /\ ~Grants(QueryList[1])
    /\ "conditions" \in DOMAIN QueryList[2]

\* a call returns false although a list of another key grants
C1_WitnessOtherKey ==
    /\ Queried /\ outcome.raised = "none" /\ ~outcome.value
    /\ \E k \in DOMAIN policies : k # QueryKey /\ Grants(policies[k][1])

\* C2: with no policy under the key "<resource.type>:<action>", isAuthorized
\* returns false and raises nothing.
C2_NoPolicyMeansFalse ==
    (Queried /\ Len(QueryList) = 0) => (outcome.raised = "none" /\ ~outcome.value)

\* a call on an engine built without options, the index holding policies
\* under other keys only
C2_Witness ==
    /\ Queried /\ Len(QueryList) = 0
    /\ policies # NoIndex
    /\ ~engine.options.given /\ ~query.debug
    /\ outcome.raised = "none" /\ ~outcome.value

\* C3: when the list of the key holds a policy without conditions and no
\* policy before it raises, isAuthorized returns true.
C3_UnconditionalPolicyGrants ==
    (Queried /\ \E i \in 1..Len(QueryList) :
                    /\ "conditions" \notin DOMAIN QueryList[i]
                    /\ \A j \in 1..(i - 1) : ~Raises(QueryList[j]))
        => (outcome.raised = "none" /\ outcome.value)

\* C4: an engine constructed without an options object answers a call made
\* with the default debug flag with a boolean.
C4_EngineWithoutOptionsDecides ==
    (Queried /\ ~engine.options.given /\ ~query.debug) => outcome.raised = "none"

\* the attribute name a dynamic key stands for
NameOf(k) == SubSeq(k, 2, Len(k))
Lacks(entity, k) == NameOf(k) \notin DOMAIN entity.attributes
ValueOf(entity, k) == entity.attributes[NameOf(k)]

IsAttributeCondition(c) == "attributeKey" \in DOMAIN c
IsPrimitiveKeyCondition(c) == "subjectKey" \in DOMAIN c
IsCollectionKeyCondition(c) == "collectionKey" \in DOMAIN c
IsLeaf(c) == IsAttributeCondition(c) \/ IsPrimitiveKeyCondition(c) \/ IsCollectionKeyCondition(c)
SourceOf(c) == IF "compareSource" \in DOMAIN c THEN c.compareSource ELSE "both"

\* an attribute the leaf condition needs is missing from the entity it is read from
NeededAttributeAbsent(c) ==
    \/ /\ IsAttributeCondition(c)
       /\ \/ SourceOf(c) = "subject" /\ Lacks(query.subject, c.attributeKey)
          \/ SourceOf(c) = "resource" /\ Lacks(query.resource, c.attributeKey)
          \/ SourceOf(c) = "both"
                /\ (Lacks(query.subject, c.attributeKey) \/ Lacks(query.resource, c.attributeKey))
    \/ /\ IsPrimitiveKeyCondition(c)
       /\ (Lacks(query.subject, c.subjectKey) \/ Lacks(query.resource, c.resourceKey))
    \/ /\ IsCollectionKeyCondition(c)
       /\ (Lacks(query.subject, c.targetKey) \/ Lacks(query.resource, c.collectionKey))

\* the list of the query is the one policy, with conditions
SinglePolicy == Queried /\ Len(QueryList) = 1 /\ "conditions" \in DOMAIN QueryList[1]

Incompatible(c, v) ==
    \/ v.type = "array"
    \/ c.operator \in {"eq", "ne"} /\ v.type # c.referenceValue.type
    \/ c.operator \in {"gt", "gte", "lt", "lte"} /\ v.type # "number"

\* the attribute condition reaches a present value of an incompatible shape
ReachesIncompatible(c) ==
    /\ IsAttributeCondition(c)
    /\ \/ /\ SourceOf(c) = "subject" /\ ~Lacks(query.subject, c.attributeKey)
          /\ Incompatible(c, ValueOf(query.subject, c.attributeKey))
       \/ /\ SourceOf(c) = "resource" /\ ~Lacks(query.resource, c.attributeKey)
          /\ Incompatible(c, ValueOf(query.resource, c.attributeKey))
       \/ /\ SourceOf(c) = "both"
          /\ ~Lacks(query.subject, c.attributeKey) /\ ~Lacks(query.resource, c.attributeKey)
          /\ \/ Incompatible(c, ValueOf(query.subject, c.attributeKey))
             \/ Incompatible(c, ValueOf(query.resource, c.attributeKey))

\* C6: when isAuthorized evaluates a policy whose attribute condition reaches a
\* present value of an incompatible shape (an array, a type other than the
\* referenceValue's under eq/ne, a non-number under gt/gte/lt/lte), the call
\* raises InvalidOperandError at that policy; and the policy is evaluated
\* whenever the policies before it returned false.
C6_IncompatibleValueRaises ==
    Queried =>
        \A i \in 1..Len(QueryList) :
            ("conditions" \in DOMAIN QueryList[i] /\ ReachesIncompatible(QueryList[i].conditions)) =>
                /\ i <= outcome.visited =>
                      (outcome.raised = "InvalidOperandError" /\ outcome.visited = i)
                /\ (outcome.visited = i - 1 /\ outcome.raised = "none") => outcome.value

\* the second policy of a list raises on a string compared by gt, the first
\* policy having returned false
C6_Witness ==
    /\ Queried /\ Len(QueryList) = 2
    /\ ~Grants(QueryList[1])
    /\ QueryList[2].conditions.operator = "gt"
    /\ ReachesIncompatible(QueryList[2].conditions)
    /\ ValueOf(query.subject, "$a").type = "string"
    /\ outcome.raised = "InvalidOperandError" /\ outcome.visited = 2

\* C7: a policy whose conditions are {operator: not, conditions: c} gets the
\* negation of the result of c, and raises what c raises.
C7_NotNegatesItsChild ==
    (SinglePolicy /\ QueryList[1].conditions.operator = "not") =>
        LET child == evaluate(query.subject, query.resource,
                              QueryList[1].conditions.conditions.elems[1], 1)
        IN  IF Returned(child)
            THEN outcome.raised = "none" /\ outcome.value = ~child.value
            ELSE outcome.raised = child.raised

\* C8: on policies that addPolicy accepts and entities that createResource
\* accepts, isAuthorized returns a boolean or raises InvalidOperandError.
C8_BooleanOrInvalidOperand ==
    Queried => outcome.raised \in {"none", "InvalidOperandError"}

\* the index with the list of the queried key reordered by the permutation f
Reordered(f) ==
    [k \in DOMAIN policies |->
        IF k = QueryKey THEN [i \in 1..Len(QueryList) |-> QueryList[f[i]]] ELSE policies[k]]

OutcomeReordered(f) ==
    isAuthorized(engine.options, Reordered(f), query.subject, query.resource,
                 query.action, query.debug)

\* C9 as stated: the outcome (the boolean or the error) is the same for every
\* order of the policies of the queried key.
C9_OrderIndependent ==
    Queried =>
        \A f \in Permutations(1..Len(QueryList)) :
            /\ OutcomeReordered(f).raised = outcome.raised
            /\ OutcomeReordered(f).value = outcome.value

\* C9 as amended: two orders of the same list that both return a boolean return
\* the same boolean, and a query that returns false in one order returns false
\* in every order.
C9_ReturnedDecisionOrderIndependent ==
    Queried =>
        \A f \in Permutations(1..Len(QueryList)) :
            /\ (outcome.raised = "none" /\ OutcomeReordered(f).raised = "none")
                  => OutcomeReordered(f).value = outcome.value
            /\ (outcome.raised = "none" /\ ~outcome.value)
                  => (OutcomeReordered(f).raised = "none" /\ ~OutcomeReordered(f).value)

\* a call returns true through the second of two different policies, the
\* first one returning false
C9_Witness ==
    /\ Queried /\ Len(QueryList) = 2 /\ QueryList[1] # QueryList[2]
    /\ outcome.raised = "none" /\ outcome.value /\ outcome.visited = 2
    /\ ~Raises(QueryList[1])

\* C10: when isAuthorized evaluates a policy that grants, it returns true at
\* that policy; the policies after it are not evaluated and raise nothing.
C10_FirstGrantReturns ==
    Queried =>
        \A i \in 1..Len(QueryList) :
            (i <= outcome.visited /\ Grants(QueryList[i])) =>
                (outcome.raised = "none" /\ outcome.value /\ outcome.visited = i)

\* the first policy grants and the second one would raise on the query
C10_Witness ==
    /\ Queried /\ Len(QueryList) = 2
    /\ Grants(QueryList[1])
    /\ Raises(QueryList[2])
    /\ evaluate(query.subject, query.resource, QueryList[2].conditions, 1).raised
          = "InvalidOperandError"
    /\ outcome.raised = "none" /\ outcome.value /\ outcome.visited = 1

\* the last isAuthorized call made again on the index as it will be
AskedAgain == isAuthorized(engine.options, policies', query.subject, query.resource,
                           query.action, query.debug)
\* the policy the last addPolicy call was handed is registered under the
\* resource type and the action of the last isAuthorized call
SameTarget(policy, q) == policy.resource = q.resource.type /\ policy.action = q.action

\* C11: when addPolicy registers a policy whose resource type and action
\* are not both those of an isAuthorized call, the call made again on the
\* new index returns or raises what it did before the registration.
C11_OtherKeyPolicyChangesNothing ==
    [][(/\ Queried
        /\ outcome'.op = "addPolicy"
        /\ outcome'.raised = "none"
        /\ ~SameTarget(argument'[1], query))
       => (AskedAgain.raised = outcome.raised /\ AskedAgain.value = outcome.value)]_vars

\* an unconditional policy has been registered for another resource type or
\* action than the one asked about, whose list holds a policy that denies
C11_Witness ==
    /\ outcome.op = "addPolicy"
    /\ outcome.raised = "none"
    /\ query # NoQuery
    /\ ~SameTarget(argument[1], query)
    /\ "conditions" \notin DOMAIN argument[1]
    /\ Len(QueryList) >= 1
    /\ LET res == isAuthorized(engine.options, policies, query.subject, query.resource,
                               query.action, query.debug)
       IN  res.raised = "none" /\ ~res.value

\* the policy object parses: an action, a resource type of the universe and
\* at most a condition that parses
Parses(policy) ==
    /\ DOMAIN policy \in {{"action", "resource"}, {"action", "resource", "conditions"}}
    /\ policy.action \in {"read", "create", "update", "delete"}
    /\ \E i \in 1..Len(resourcesTypes) : resourcesTypes[i] = policy.resource
    /\ "conditions" \in DOMAIN policy => conditionSchema(policy.conditions)

\* C12: addPolicy handed a policy that does not parse raises and leaves the
\* index as it was: the same keys with the same lists.
C12_RejectedPolicyLeavesIndex ==
    [][(outcome'.op = "addPolicy" /\ ~Parses(argument'[1]))
       => (outcome'.raised = "ZodError" /\ policies' = policies)]_vars

\* addPolicy has raised on a policy that does not parse, the index holding
\* a policy registered before
C12_Witness ==
    /\ outcome.op = "addPolicy"
    /\ outcome.raised = "ZodError"
    /\ ~Parses(argument[1])
    /\ Size(policies) >= 1

\* the position of the first policy of the list that does not parse, or one
\* more than the length of the list
FirstFailing(list) ==
    IF \A i \in 1..Len(list) : Parses(list[i]) THEN Len(list) + 1
    ELSE CHOOSE i \in 1..Len(list) : ~Parses(list[i]) /\ \A j \in 1..(i - 1) : Parses(list[j])

NameOfKey(policy) == policy.resource \o ":" \o policy.action
Under(index, k) == IF k \in DOMAIN index THEN index[k] ELSE <<>>
\* the policies of seq registered under k, in the order of seq
WithKey(seq, k) == LET Is(policy) == NameOfKey(policy) = k IN SelectSeq(seq, Is)
\* index is old with the policies of seq appended, each to the list of its key
Extends(index, old, seq) ==
    /\ DOMAIN index = DOMAIN old \cup {NameOfKey(seq[i]) : i \in 1..Len(seq)}
    /\ \A k \in DOMAIN index : index[k] = Under(old, k) \o WithKey(seq, k)

\* C13: addPolicies handed a list with a policy that does not parse raises;
\* the policies before the first such policy are registered, in the order
\* of the list, and neither that policy nor any later one is.
C13_AddPoliciesStopsAtFirstFailure ==
    [][(outcome'.op = "addPolicies" /\ FirstFailing(argument') <= Len(argument'))
       => (/\ outcome'.raised = "ZodError"
           /\ Extends(policies', policies, SubSeq(argument', 1, FirstFailing(argument') - 1)))]_vars

\* addPolicies has raised on the second policy of three: the first is the
\* last of its list and the third is nowhere in the index
C13_Witness ==
    /\ outcome.op = "addPolicies"
    /\ outcome.raised = "ZodError"
    /\ Len(argument) = 3
    /\ FirstFailing(argument) = 2
    /\ Parses(argument[3])
    /\ LET list == Under(policies, NameOfKey(argument[1])) IN list # <<>> /\ list[Len(list)] = argument[1]
    /\ NameOfKey(argument[3]) \notin DOMAIN policies

\* the policies the last call registered: those handed to addPolicy or
\* addPolicies before the first one that does not parse
Accepted(op, arg) ==
    IF op \in {"addPolicy", "addPolicies"} THEN SubSeq(arg, 1, FirstFailing(arg) - 1) ELSE <<>>

\* C14: every call leaves each list of the index as it was, followed by the
\* policies of that key the call registered, in the order they were handed
\* in; no policy is removed, moved or replaced. The index is empty at first,
\* so each list is the sequence of the policies registered under its key.
C14_ListsGrowInRegistrationOrder ==
    [][Extends(policies', policies, Accepted(outcome'.op, argument'))]_vars

\* a second policy has been registered under a key: it is the last of the
\* list, behind a different policy registered before
C14_Witness ==
    /\ outcome.op = "addPolicy"
    /\ outcome.raised = "none"
    /\ LET list == Under(policies, NameOfKey(argument[1]))
       IN  Len(list) = 2 /\ list[2] = argument[1] /\ list[1] # list[2]

\* C15: every policy in the index names a resource type of the universe and
\* one of the four actions, and addPolicy handed a policy with a resource
\* type outside the universe raises.
C15_IndexedPoliciesAreOfTheUniverse ==
    /\ \A k \in DOMAIN policies : \A i \in 1..Len(policies[k]) :
          /\ \E j \in 1..Len(resourcesTypes) : resourcesTypes[j] = policies[k][i].resource
          /\ policies[k][i].action \in {"read", "create", "update", "delete"}
    /\ (/\ outcome.op = "addPolicy"
        /\ \A j \in 1..Len(resourcesTypes) : resourcesTypes[j] # argument[1].resource)
       => outcome.raised = "ZodError"

\* addPolicy has raised on a policy with a resource type outside a universe
\* of three names, the index holding a policy
C15_Witness ==
    /\ outcome.op = "addPolicy"
    /\ outcome.raised = "ZodError"
    /\ Len(resourcesTypes) = 3
    /\ \A j \in 1..Len(resourcesTypes) : resourcesTypes[j] # argument[1].resource
    /\ argument[1].action = "read"
    /\ "conditions" \notin DOMAIN argument[1]
    /\ Size(policies) >= 1

\* the list holds the same name at two positions
HasDuplicate(list) == \E i, j \in 1..Len(list) : i # j /\ list[i] = list[j]

\* C16: new PolicyManager handed an empty universe, or one that holds the
\* same name twice, raises.
C16_BadUniverseFailsConstruction ==
    (outcome.op = "new PolicyManager" /\ (resourcesTypes = <<>> \/ HasDuplicate(resourcesTypes)))
    => outcome.raised # "none"

RECURSIVE HasEmptyList(_)
\* the condition holds, at some depth, an and or an or with no conditions
HasEmptyList(c) ==
    /\ "conditions" \in DOMAIN c
    /\ \/ c.operator \in {"and", "or"} /\ c.conditions.array /\ c.conditions.elems = <<>>
       \/ \E i \in 1..Len(c.conditions.elems) : HasEmptyList(c.conditions.elems[i])

RECURSIVE HasNotOfList(_)
\* the condition holds, at some depth, a not whose conditions is a list
HasNotOfList(c) ==
    /\ "conditions" \in DOMAIN c
    /\ \/ c.operator = "not" /\ c.conditions.array
       \/ \E i \in 1..Len(c.conditions.elems) : HasNotOfList(c.conditions.elems[i])

MalformedLogical(policy) ==
    "conditions" \in DOMAIN policy
    /\ (HasEmptyList(policy.conditions) \/ HasNotOfList(policy.conditions))

\* C17: a policy holding, at any depth, an and or an or with an empty list,
\* or a not whose conditions is not one condition, is rejected by the
\* registration and is never in the index.
C17_MalformedLogicalRejected ==
    /\ (outcome.op = "addPolicies" /\ \E i \in 1..Len(argument) : MalformedLogical(argument[i]))
       => outcome.raised = "ZodError"
    /\ \A k \in DOMAIN policies : \A i \in 1..Len(policies[k]) : ~MalformedLogical(policies[k][i])

\* a string, a number, a boolean, a list of strings or a list of numbers
Permitted(v) ==
    \/ v.type \in {"string", "number", "boolean"}
    \/ /\ v.type = "array"
       /\ \/ \A i \in 1..Len(v.items) : v.items[i].type = "string"
          \/ \A i \in 1..Len(v.items) : v.items[i].type = "number"

\* C18: createResource returns the resource when its type is in the
\* universe and every attribute value is a string, a number, a boolean, a
\* list of strings or a list of numbers, and raises otherwise.
C18_CreateResourceValidates ==
    outcome.op = "createResource"
    => LET resource == argument[1]
           ok == /\ \E j \in 1..Len(resourcesTypes) : resourcesTypes[j] = resource.type
                 /\ \A k \in DOMAIN resource.attributes : Permitted(resource.attributes[k])
       IN  IF ok THEN outcome.raised = "none" ELSE outcome.raised = "ZodError"

\* createResource has raised on a resource of a type of the universe whose
\* one offending attribute is a list of booleans
C18_Witness ==
    /\ outcome.op = "createResource"
    /\ outcome.raised = "ZodError"
    /\ argument[1].type = "order"
    /\ DOMAIN argument[1].attributes = {"a", "b"}
    /\ argument[1].attributes["b"] = Arr(<<Bool(TRUE)>>)

\* C19: when the debug flag is set, by the call or by the options, the
\* logger function passed in the options receives a record for the final
\* outcome and at least one for each policy the call evaluated.
C19_LoggerReceivesRecords ==
    (Queried /\ engine.options.logger /\ (query.debug \/ engine.options.debug))
    => outcome.logger >= outcome.visited + 1

TheCondition == QueryList[1].conditions
\* the policy is an and or an or over a list of conditions
AndOr == SinglePolicy /\ TheCondition.operator \in {"and", "or"} /\ "conditions" \in DOMAIN TheCondition
Children == TheCondition.conditions.elems
\* the result of the i-th child on its own
ChildResult(i) == evaluate(query.subject, query.resource, Children[i], 2)
\* false decides an and, true decides an or
Deciding == TheCondition.operator = "or"
Decides(i) == ChildResult(i).raised = "none" /\ ChildResult(i).value = Deciding

\* C21: an and returns false at its first false child and an or returns
\* true at its first true child, the children before it having returned the
\* other boolean; the children after it are not evaluated, so that one of
\* them that would raise raises nothing.
C21_AndOrStopAtFirstDecidingChild ==
    AndOr =>
        \A i \in 1..Len(Children) :
            (Decides(i) /\ \A j \in 1..(i - 1) : ChildResult(j).raised = "none" /\ ~Decides(j))
                => (outcome.raised = "none" /\ outcome.value = Deciding)

\* an and of two children has returned false at the first one, the second
\* being one that raises InvalidOperandError on the query
C21_Witness ==
    /\ AndOr /\ TheCondition.operator = "and" /\ Len(Children) = 2
    /\ Decides(1)
    /\ ChildResult(2).raised = "InvalidOperandError"
    /\ outcome.raised = "none" /\ ~outcome.value

\* C22: an and or an or with one child has the outcome of the child alone:
\* the same boolean or the same error.
C22_SingleChildIsTheChild ==
    (AndOr /\ Len(Children) = 1)
        => LET alone == evaluate(query.subject, query.resource, Children[1], 1)
           IN  outcome.raised = alone.raised /\ outcome.value = alone.value

\* an or with one child has raised the InvalidOperandError of the child
C22_Witness ==
    /\ AndOr /\ TheCondition.operator = "or" /\ Len(Children) = 1
    /\ IsLeaf(Children[1])
    /\ outcome.raised = "InvalidOperandError"

\* the policy is one attribute condition
OneAttributeCondition == SinglePolicy /\ IsAttributeCondition(TheCondition)
\* the entity compareSource names
Named == IF SourceOf(TheCondition) = "subject" THEN query.subject ELSE query.resource
\* the entity holds the attribute of the condition, and not as an array
HoldsPrimitive(entity) ==
    ~Lacks(entity, TheCondition.attributeKey)
    /\ ValueOf(entity, TheCondition.attributeKey).type \in {"string", "number", "boolean"}
\* the comparison of the condition applied to the value the entity holds
SideResult(entity) ==
    evaluateAttributeCondition(TheCondition, ValueOf(entity, TheCondition.attributeKey))

\* C23: an attribute condition with compareSource set, whose attribute the
\* named entity holds as a string, a number or a boolean, has the outcome of
\* the comparison of that value with referenceValue, whatever the other
\* entity holds.
C23_ComparesTheNamedSideOnly ==
    (OneAttributeCondition /\ SourceOf(TheCondition) \in {"subject", "resource"}
        /\ HoldsPrimitive(Named))
        => (outcome.raised = SideResult(Named).raised /\ outcome.value = SideResult(Named).value)

\* compareSource = subject, the subject holds the number 0 and the resource
\* an array under the same name: the call has returned true
C23_Witness ==
    /\ OneAttributeCondition /\ SourceOf(TheCondition) = "subject"
    /\ ~Lacks(query.subject, TheCondition.attributeKey)
    /\ ValueOf(query.subject, TheCondition.attributeKey) = Num(0)
    /\ ~Lacks(query.resource, TheCondition.attributeKey)
    /\ ValueOf(query.resource, TheCondition.attributeKey).type = "array"
    /\ outcome.raised = "none" /\ outcome.value

\* the condition has no compareSource and both entities hold its attribute
\* as a string, a number or a boolean
BothSides ==
    /\ OneAttributeCondition /\ SourceOf(TheCondition) = "both"
    /\ HoldsPrimitive(query.subject) /\ HoldsPrimitive(query.resource)

\* C24: an attribute condition without compareSource, both entities holding
\* the attribute as a primitive and neither comparison raising, returns the
\* conjunction of the two comparisons.
C24_BothSidesAreConjoined ==
    (BothSides /\ SideResult(query.subject).raised = "none"
        /\ SideResult(query.resource).raised = "none")
        => (/\ outcome.raised = "none"
            /\ outcome.value = (SideResult(query.subject).value /\ SideResult(query.resource).value))

\* the subject satisfies the comparison, the resource does not, and the
\* call has returned false
C24_Witness ==
    /\ BothSides
    /\ SideResult(query.subject) = Return(TRUE)
    /\ SideResult(query.resource) = Return(FALSE)
    /\ outcome.raised = "none" /\ ~outcome.value

\* C29: an attribute condition without compareSource, both entities holding
\* the attribute as a primitive, raises InvalidOperandError when the
\* comparison of either side raises, also when the other side is false.
C29_BothSidesAreEvaluated ==
    (BothSides /\ (SideResult(query.subject).raised # "none"
                      \/ SideResult(query.resource).raised # "none"))
        => outcome.raised = "InvalidOperandError"

\* the resource does not satisfy the comparison, the subject holds a value
\* of a type the operator rejects, and the call has raised
C29_Witness ==
    /\ BothSides
    /\ SideResult(query.resource) = Return(FALSE)
    /\ SideResult(query.subject).raised = "InvalidOperandError"
    /\ outcome.raised = "InvalidOperandError"

\* the policy is one attribute condition with in or nin and compareSource,
\* and the named entity holds the attribute as a primitive: the probe
Membership ==
    /\ OneAttributeCondition /\ TheCondition.operator \in {"in", "nin"}
    /\ SourceOf(TheCondition) \in {"subject", "resource"}
    /\ HoldsPrimitive(Named)
Probe == ValueOf(Named, TheCondition.attributeKey)
Elements == TheCondition.referenceValue.items
SomeOfProbeType == \E i \in 1..Len(Elements) : Elements[i].type = Probe.type
SomeEqualToProbe ==
    \E i \in 1..Len(Elements) :
        /\ Elements[i].type = Probe.type
        /\ Elements[i].str = Probe.str
        /\ Elements[i].num = Probe.num

\* C25: an attribute condition with in or nin and a string or number probe
\* returns, when some element of referenceValue has the type of the probe,
\* whether some element is equal to the probe (in) or none is (nin); with a
\* boolean probe, or no element of the type of the probe, it raises
\* InvalidOperandError.
C25_MembershipOfTheProbe ==
    Membership =>
        IF Probe.type \in {"string", "number"} /\ SomeOfProbeType
        THEN /\ outcome.raised = "none"
             /\ outcome.value = IF TheCondition.operator = "in" THEN SomeEqualToProbe
                                 ELSE ~SomeEqualToProbe
        ELSE outcome.raised = "InvalidOperandError"

\* nin with a number probe and a list of other numbers has returned true
C25_Witness ==
    /\ Membership /\ TheCondition.operator = "nin"
    /\ Probe.type = "number"
    /\ Len(Elements) = 2
    /\ outcome.raised = "none" /\ outcome.value

\* the policy is one primitive entity-key condition and both entities hold
\* the attribute it names
PrimitiveKeys ==
    /\ SinglePolicy /\ IsPrimitiveKeyCondition(TheCondition)
    /\ ~Lacks(query.subject, TheCondition.subjectKey)
    /\ ~Lacks(query.resource, TheCondition.resourceKey)
SubjectValue == ValueOf(query.subject, TheCondition.subjectKey)
ResourceValue == ValueOf(query.resource, TheCondition.resourceKey)
Numeric(op, l, r) ==
    CASE op = "gt" -> l > r
      [] op = "gte" -> l >= r
      [] op = "lt" -> l < r
      [] op = "lte" -> l <= r

\* C26: a primitive entity-key condition on two present values raises
\* InvalidOperandError when either is an array or their types differ;
\* otherwise eq and ne compare the two values, and gt, gte, lt and lte compare
\* the subject's number with the resource's number and raise
\* InvalidOperandError on values that are not numbers.
C26_PrimitiveKeysCompareSubjectWithResource ==
    PrimitiveKeys =>
        IF SubjectValue.type = "array" \/ ResourceValue.type = "array"
              \/ SubjectValue.type # ResourceValue.type
        THEN outcome.raised = "InvalidOperandError"
        ELSE IF TheCondition.operator = "eq"
        THEN outcome.raised = "none" /\ outcome.value = (SubjectValue = ResourceValue)
        ELSE IF TheCondition.operator = "ne"
        THEN outcome.raised = "none" /\ outcome.value = (SubjectValue # ResourceValue)
        ELSE IF SubjectValue.type = "number"
        THEN /\ outcome.raised = "none"
             /\ outcome.value = Numeric(TheCondition.operator, SubjectValue.num, ResourceValue.num)
        ELSE outcome.raised = "InvalidOperandError"

\* gt on a larger subject number and a smaller resource number has returned true
C26_Witness ==
    /\ PrimitiveKeys /\ TheCondition.operator = "gt"
    /\ SubjectValue.type = "number" /\ ResourceValue.type = "number"
    /\ SubjectValue.num > ResourceValue.num
    /\ outcome.raised = "none" /\ outcome.value

\* the policy is one collection entity-key condition
CollectionKeys == SinglePolicy /\ IsCollectionKeyCondition(TheCondition)
Attribute(entity, k) ==
    IF Lacks(entity, k) THEN Undefined ELSE ValueOf(entity, k)
Collection ==
    IF TheCondition.collectionSource = "subject"
    THEN Attribute(query.subject, TheCondition.targetKey)
    ELSE Attribute(query.resource, TheCondition.collectionKey)
Target ==
    IF TheCondition.collectionSource = "subject"
    THEN Attribute(query.resource, TheCondition.collectionKey)
    ELSE Attribute(query.subject, TheCondition.targetKey)
InCollection ==
    evaluateAttributeCondition(
        [operator |-> TheCondition.operator, attributeKey |-> "this-is-ignored",
         referenceValue |-> Collection], Target)

\* C27: in the collection form the collection is the subject's attribute
\* named by targetKey and the target the resource's attribute named by
\* collectionKey when collectionSource is subject, and the collection is the
\* resource's attribute named by collectionKey and the target the subject's
\* attribute named by targetKey when collectionSource is resource; the name
\* is the key without its leading $.
C27_CollectionAndTargetOfTheSource ==
    CollectionKeys =>
        IF Collection = Undefined \/ Target = Undefined
        THEN outcome.raised = "none" /\ ~outcome.value
        ELSE IF Target.type = "array" \/ Collection.type # "array"
        THEN outcome.raised = "InvalidOperandError"
        ELSE outcome.raised = InCollection.raised /\ outcome.value = InCollection.value

\* with collectionSource subject, the subject's list under targetKey holds
\* the resource's value under collectionKey, and in has returned true
C27_Witness ==
    /\ CollectionKeys /\ TheCondition.operator = "in"
    /\ TheCondition.collectionSource = "subject"
    /\ Attribute(query.subject, TheCondition.targetKey) = Arr(<<Str("x")>>)
    /\ Attribute(query.resource, TheCondition.collectionKey) = Str("x")
    /\ outcome.raised = "none" /\ outcome.value

\* both values of the collection form are present
CollectionPresent == CollectionKeys /\ Collection # Undefined /\ Target # Undefined
SomeEqualToTarget ==
    \E i \in 1..Len(Collection.items) :
        /\ Collection.items[i].type = Target.type
        /\ Collection.items[i].str = Target.str
        /\ Collection.items[i].num = Target.num
        /\ Collection.items[i].bool = Target.bool

\* C28: in the collection form with both values present, InvalidOperandError
\* is raised only when the target is an array or the collection is not an
\* array; for every primitive target and every array collection, in returns
\* whether some element of the collection is equal to the target and nin the
\* negation.
C28_MembershipOfEveryPrimitiveTarget ==
    CollectionPresent =>
        IF Target.type = "array" \/ Collection.type # "array"
        THEN outcome.raised = "InvalidOperandError"
        ELSE /\ outcome.raised = "none"
             /\ outcome.value = IF TheCondition.operator = "in" THEN SomeEqualToTarget
                                 ELSE ~SomeEqualToTarget

\* the decision isAuthorized gives on the index the manager holds now
OnTheManagersIndex ==
    isAuthorized(engine.options, policies, query.subject, query.resource,
                 query.action, query.debug)

\* C30: the engine built on getPolicies() reads the manager's own index, so
\* every isAuthorized call decides on the policies the manager holds at the
\* time of the call, those registered after the engine was built included;
\* and clearing the Map getPolicies returns empties the manager's index.
C30_EngineAndManagerShareTheIndex ==
    /\ Queried => /\ outcome.raised = OnTheManagersIndex.raised
                  /\ outcome.value = OnTheManagersIndex.value
                  /\ outcome.visited = OnTheManagersIndex.visited
    /\ outcome.op = "getPolicies().clear" => policies = NoIndex

\* the engine was built on the empty index, and a call has been granted by a
\* policy registered since
C30_Witness ==
    /\ Queried /\ outcome.raised = "none" /\ outcome.value
    /\ engine.policies = [object |-> "this.policies"]
    /\ QueryList # <<>>
====
